---- MODULE Spec2Model ----
(***************************************************************************)
(* A model of ys::PatriciaTrie, the header that main.cpp instantiates as   *)
(* PatriciaTrie<char, unsigned int, unsigned int> (src/unnamed/part_000).  *)
(*                                                                         *)
(* The free store is the sequence `nodes`: a Node* is an index into it,    *)
(* 0 is the null pointer.  A node keeps the four fields of the class:      *)
(* c_ (pointer to the child map), d_ (edge buffer), l_ (edge length) and   *)
(* v_ (terminal value, INVALID for a branch node).  The pointer c_ is a    *)
(* set: {} is the null pointer, {m} points to the map m.  A map is a       *)
(* function whose domain is the set of symbols it holds.  A key is a       *)
(* sequence of symbols; key + n of the source is the suffix from n + 1.    *)
(***************************************************************************)
EXTENDS Integers, Sequences, FiniteSets, TLC

\* Longest key a caller passes.
MaxLen == 3
\* Number of add_key / remove_key calls of one run.
MaxCalls == 3

\* KTYPE: the symbols keys are made of.
Symbols == {"a", "b"}
\* VTYPE values a caller passes to add_key (never INVALID).
Values == {0, 1}
\* The template's default INVALID = ~(VTYPE)0, here for an 8-bit unsigned VTYPE
\* (main.cpp's unsigned int gives 2^32 - 1; only "differs from every value a
\* caller passes, and from 0" is used).
INVALID == 255
\* `return false` in a function returning VTYPE.
FalseValue == 0

\* The keys a caller passes: 0 < length.
Keys == UNION {[1..n -> Symbols] : n \in 1..MaxLen}
\* What a read of a freed edge buffer can yield.
FreedReads == [1..(MaxLen - 2) -> Symbols]

NullNode == 0
NullPtr == {}
PtrTo(m) == {m}
Deref(p) == CHOOSE m \in p : TRUE
EmptyMap == [s \in {} |-> NullNode]
\* m[k] = x of std::unordered_map: insert or overwrite.
MapPut(m, k, x) == [s \in (DOMAIN m) \cup {k} |-> IF s = k THEN x ELSE m[s]]
Min(a, b) == IF a < b THEN a ELSE b
\* key + n, length - n
Suffix(key, n) == SubSeq(key, n + 1, Len(key))
\* the first n symbols of key
Prefix(key, n) == SubSeq(key, 1, n)

VARIABLES
    head_,      \* PatriciaTrie::head_: first symbol -> root node of its subtree
    nodes,      \* the Node objects allocated so far; nodes[n] is the node at n
    last,       \* the last add_key / remove_key call: its arguments, the value
                \* it returned, whether cut_head read a freed buffer (uaf) and
                \* whether its key was present before the call (had)
    present,    \* key -> value of the latest add_key, for the keys added and
                \* not removed since
    ncalls,     \* number of add_key / remove_key calls made
    hpp_head_,  \* head_ of a trie of the older header given the same calls
    hpp_nodes   \* the Node objects of that trie; c_ is the map itself

vars == <<head_, nodes, last, present, ncalls, hpp_head_, hpp_nodes>>

\* A constructor that leaves v_ at the non-terminal mark.
Node_novalue(key, value) ==
    [c_ |-> NullPtr, d_ |-> key, l_ |-> Len(key), v_ |-> INVALID]

\* Node::Node(key, length, value)
Node(key, value) ==
    [c_ |-> NullPtr, d_ |-> key, l_ |-> Len(key), v_ |-> value]

\* Node::cut_head(length): the old buffer is deleted before the copy reads
\* d_ + length from it, so the new edge is what the freed store yields (mem).
cut_head(nd, length, mem) ==
    LET l == nd.l_ - length
    IN  [nd EXCEPT !.l_ = l,
                   !.d_ = IF 0 < l THEN Prefix(mem, l) ELSE <<>>]

\* The loop stopping one symbol early.
Mismatch_early(d, key, n) ==
    LET i == CHOOSE i \in 0..n :
                 /\ (i = n \/ d[i + 1] # key[i + 1])
                 /\ \A j \in 1..i : d[j] = key[j]
    IN  IF i > 0 THEN i - 1 ELSE i

\* The while loop of Node::Add: the first index below n where d and key differ.
Mismatch(d, key, n) ==
    CHOOSE i \in 0..n :
        /\ (i = n \/ d[i + 1] # key[i + 1])
        /\ \A j \in 1..i : d[j] = key[j]

RECURSIVE Node_Add(_, _, _, _, _)
\* Node::Add(node, key, length, value): the new store, the returned node and
\* whether cut_head read a freed buffer.
Node_Add(h, node, key, value, mem) ==
    LET length == Len(key) IN
    IF node # NullNode
    THEN LET nd == h[node]
             n == Min(nd.l_, length)
             i == Mismatch(nd.d_, key, n)
         IN  IF i < n
             THEN LET p == Len(h) + 1
                      q == Len(h) + 2
                      pm == MapPut(MapPut(EmptyMap, nd.d_[i + 1], node), key[i + 1], q)
                      pn == [Node(Prefix(key, i), INVALID) EXCEPT !.c_ = PtrTo(pm)]
                      cut == cut_head(nd, i + 1, mem)
                      qn == Node(Suffix(key, i + 1), value)
                  IN  [nodes |-> Append(Append([h EXCEPT ![node] = cut], pn), qn),
                       node |-> p,
                       uaf |-> 0 < cut.l_]
             ELSE IF nd.l_ < length
             THEN LET c == IF nd.c_ # NullPtr /\ key[i + 1] \in DOMAIN Deref(nd.c_)
                           THEN Deref(nd.c_)[key[i + 1]]
                           ELSE NullNode
                      r == Node_Add(h, c, Suffix(key, i + 1), value, mem)
                      m == IF r.nodes[node].c_ # NullPtr
                           THEN Deref(r.nodes[node].c_)
                           ELSE EmptyMap
                  IN  [nodes |-> [r.nodes EXCEPT ![node].c_ = PtrTo(MapPut(m, key[i + 1], r.node))],
                       node |-> node,
                       uaf |-> r.uaf]
             ELSE IF length < nd.l_
             THEN LET p == Len(h) + 1
                      pm == MapPut(EmptyMap, nd.d_[i + 1], node)
                      pn == [Node(key, value) EXCEPT !.c_ = PtrTo(pm)]
                      cut == cut_head(nd, i + 1, mem)
                  IN  [nodes |-> Append([h EXCEPT ![node] = cut], pn),
                       node |-> p,
                       uaf |-> 0 < cut.l_]
             ELSE [nodes |-> [h EXCEPT ![node].v_ = value],
                   node |-> node,
                   uaf |-> FALSE]
    ELSE [nodes |-> Append(h, Node(key, value)),
          node |-> Len(h) + 1,
          uaf |-> FALSE]

\* add_key handing Node::Add the whole key instead of key + 1.
add_key_whole(hd, h, key, value, mem) ==
    LET node == IF key[1] \in DOMAIN hd THEN hd[key[1]] ELSE NullNode
        r == Node_Add(h, node, key, value, mem)
    IN  [head_ |-> MapPut(hd, key[1], r.node), nodes |-> r.nodes, uaf |-> r.uaf]

\* add_key dropping the node Node::Add returns when the subtree exists.
add_key_nostore(hd, h, key, value, mem) ==
    LET node == IF key[1] \in DOMAIN hd THEN hd[key[1]] ELSE NullNode
        r == Node_Add(h, node, Suffix(key, 1), value, mem)
    IN  [head_ |-> IF node # NullNode THEN hd ELSE MapPut(hd, key[1], r.node),
         nodes |-> r.nodes, uaf |-> r.uaf]

\* PatriciaTrie::add_key(key, length, value)
add_key(hd, h, key, value, mem) ==
    LET node == IF key[1] \in DOMAIN hd THEN hd[key[1]] ELSE NullNode
        r == Node_Add(h, node, Suffix(key, 1), value, mem)
    IN  [head_ |-> MapPut(hd, key[1], r.node), nodes |-> r.nodes, uaf |-> r.uaf]

RECURSIVE Node_remove_key_path(_, _, _)
\* remove_key clearing v_ of every node it walks through.
Node_remove_key_path(h, node, key) ==
    LET nd == h[node]
        length == Len(key)
        hc == [h EXCEPT ![node].v_ = INVALID]
    IN  IF length < nd.l_ THEN [nodes |-> h, ret |-> INVALID]
        ELSE IF nd.d_ # Prefix(key, nd.l_) THEN [nodes |-> h, ret |-> INVALID]
        ELSE IF length = nd.l_ THEN [nodes |-> hc, ret |-> nd.v_]
        ELSE IF nd.c_ = NullPtr THEN [nodes |-> h, ret |-> INVALID]
        ELSE IF key[nd.l_ + 1] \notin DOMAIN Deref(nd.c_)
             THEN [nodes |-> h, ret |-> INVALID]
        ELSE Node_remove_key_path(hc, Deref(nd.c_)[key[nd.l_ + 1]],
                                  Suffix(key, nd.l_ + 1))

RECURSIVE Node_remove_key_merge(_, _, _)
\* remove_key merging a node left with a single child into that child: the
\* edge merging the source's @todo defers.
Node_remove_key_merge(h, node, key) ==
    LET nd == h[node]
        length == Len(key)
    IN  IF length < nd.l_ THEN [nodes |-> h, ret |-> INVALID]
        ELSE IF nd.d_ # Prefix(key, nd.l_) THEN [nodes |-> h, ret |-> INVALID]
        ELSE IF length = nd.l_
             THEN IF nd.c_ # NullPtr /\ Cardinality(DOMAIN Deref(nd.c_)) = 1
                  THEN LET s == CHOOSE x \in DOMAIN Deref(nd.c_) : TRUE
                           c == h[Deref(nd.c_)[s]]
                       IN  [nodes |-> [h EXCEPT ![node] =
                                          [c_ |-> c.c_,
                                           d_ |-> nd.d_ \o <<s>> \o c.d_,
                                           l_ |-> nd.l_ + 1 + c.l_,
                                           v_ |-> c.v_]],
                            ret |-> nd.v_]
                  ELSE [nodes |-> [h EXCEPT ![node].v_ = INVALID], ret |-> nd.v_]
        ELSE IF nd.c_ = NullPtr THEN [nodes |-> h, ret |-> INVALID]
        ELSE IF key[nd.l_ + 1] \notin DOMAIN Deref(nd.c_)
             THEN [nodes |-> h, ret |-> INVALID]
        ELSE Node_remove_key_merge(h, Deref(nd.c_)[key[nd.l_ + 1]],
                                   Suffix(key, nd.l_ + 1))

RECURSIVE Node_remove_key(_, _, _)
\* Node::remove_key(key, length): the new store and the value returned.
Node_remove_key(h, node, key) ==
    LET nd == h[node]
        length == Len(key)
    IN  IF length < nd.l_ THEN [nodes |-> h, ret |-> INVALID]
        ELSE IF nd.d_ # Prefix(key, nd.l_) THEN [nodes |-> h, ret |-> INVALID]
        ELSE IF length = nd.l_
             THEN [nodes |-> [h EXCEPT ![node].v_ = INVALID], ret |-> nd.v_]
        ELSE IF nd.c_ = NullPtr THEN [nodes |-> h, ret |-> INVALID]
        ELSE IF key[nd.l_ + 1] \notin DOMAIN Deref(nd.c_)
             THEN [nodes |-> h, ret |-> INVALID]
        ELSE Node_remove_key(h, Deref(nd.c_)[key[nd.l_ + 1]], Suffix(key, nd.l_ + 1))

\* PatriciaTrie::remove_key(key, length)
remove_key(hd, h, key) ==
    IF key[1] \notin DOMAIN hd
    THEN [nodes |-> h, ret |-> FalseValue]
    ELSE Node_remove_key(h, hd[key[1]], Suffix(key, 1))

RECURSIVE Node_locate(_, _, _)
\* The walk shared by Node::remove_key and Node::get_value, giving the node at
\* which key ends (length == l_) instead of its v_; NullNode where they give I_.
Node_locate(h, node, key) ==
    LET nd == h[node]
        length == Len(key)
    IN  IF length < nd.l_ THEN NullNode
        ELSE IF nd.d_ # Prefix(key, nd.l_) THEN NullNode
        ELSE IF length = nd.l_ THEN node
        ELSE IF nd.c_ = NullPtr THEN NullNode
        ELSE IF key[nd.l_ + 1] \notin DOMAIN Deref(nd.c_) THEN NullNode
        ELSE Node_locate(h, Deref(nd.c_)[key[nd.l_ + 1]], Suffix(key, nd.l_ + 1))

\* The node that represents key: the walk from head_.find(key[0]).
Locate(hd, h, key) ==
    IF key[1] \notin DOMAIN hd
    THEN NullNode
    ELSE Node_locate(h, hd[key[1]], Suffix(key, 1))

RECURSIVE Node_get_value(_, _, _)
\* Node::get_value(key, length)
Node_get_value(h, node, key) ==
    LET nd == h[node]
        length == Len(key)
    IN  IF length < nd.l_ THEN INVALID
        ELSE IF nd.d_ # Prefix(key, nd.l_) THEN INVALID
        ELSE IF length = nd.l_ THEN nd.v_
        ELSE IF nd.c_ = NullPtr THEN INVALID
        ELSE IF key[nd.l_ + 1] \notin DOMAIN Deref(nd.c_) THEN INVALID
        ELSE Node_get_value(h, Deref(nd.c_)[key[nd.l_ + 1]], Suffix(key, nd.l_ + 1))

\* PatriciaTrie::get_value(key, length)
get_value(hd, h, key) ==
    IF key[1] \notin DOMAIN hd
    THEN FalseValue
    ELSE Node_get_value(h, hd[key[1]], Suffix(key, 1))

RECURSIVE Node_get_values(_, _, _)
\* Node::get_values(buffer, length, values): the values pushed back, in order.
Node_get_values(h, node, buffer) ==
    LET nd == h[node]
        length == Len(buffer)
    IN  IF length < nd.l_ THEN <<>>
        ELSE IF nd.d_ # Prefix(buffer, nd.l_) THEN <<>>
        ELSE (IF nd.v_ # INVALID THEN <<nd.v_>> ELSE <<>>)
             \o (IF /\ nd.l_ < length
                    /\ nd.c_ # NullPtr
                    /\ buffer[nd.l_ + 1] \in DOMAIN Deref(nd.c_)
                 THEN Node_get_values(h, Deref(nd.c_)[buffer[nd.l_ + 1]],
                                      Suffix(buffer, nd.l_ + 1))
                 ELSE <<>>)

\* PatriciaTrie::get_values(buffer, length, values)
get_values(hd, h, buffer) ==
    IF buffer[1] \notin DOMAIN hd
    THEN <<>>
    ELSE Node_get_values(h, hd[buffer[1]], Suffix(buffer, 1))

\* PatriciaTrie::find_key(key, length)
find_key(hd, h, key) == get_value(hd, h, key) # INVALID

(***************************************************************************)
(* The older header, src/patricia_trie.hpp.  Its nodes keep the symbol that  *)
(* dispatched to them as the first symbol of their edge, c_ is a map member  *)
(* rather than a pointer, and a failed assert aborts the call: the operators *)
(* give ok = FALSE and leave the store as it was.                            *)
(***************************************************************************)

\* Node::Node(key, length, value) of the older header
Hpp_Node(key, value) ==
    [c_ |-> EmptyMap, d_ |-> key, l_ |-> Len(key), v_ |-> value]

\* Node::cut_head(length) of the older header: the copy is made from the live
\* buffer, which is deleted afterwards.
Hpp_cut_head(nd, length) ==
    [nd EXCEPT !.l_ = nd.l_ - length, !.d_ = Suffix(nd.d_, length)]

\* The asserts at the head of remove_key, get_value, get_values and Add of the
\* older header's Node: 0 < length and d_[0] == key[0].
Hpp_asserts(nd, key) == 0 < Len(key) /\ 0 < nd.l_ /\ nd.d_[1] = key[1]

\* The while loop of the older Node::Add, which starts at index 1.
Hpp_Mismatch(d, key, n) ==
    IF n <= 1 THEN 1
    ELSE CHOOSE i \in 1..n :
             /\ (i = n \/ d[i + 1] # key[i + 1])
             /\ \A j \in 2..i : d[j] = key[j]

RECURSIVE Hpp_Node_Add(_, _, _, _)
\* Node::Add(node, key, length, value) of the older header: the new store, the
\* node returned and whether every assert met held.
Hpp_Node_Add(h, node, key, value) ==
    LET length == Len(key)
    IN  IF ~(0 < length /\ value # INVALID)
        THEN [nodes |-> h, node |-> node, ok |-> FALSE]
        ELSE IF node = NullNode
        THEN [nodes |-> Append(h, Hpp_Node(key, value)),
              node |-> Len(h) + 1,
              ok |-> TRUE]
        ELSE IF ~Hpp_asserts(h[node], key)
        THEN [nodes |-> h, node |-> node, ok |-> FALSE]
        ELSE LET nd == h[node]
                 n == Min(nd.l_, length)
                 i == Hpp_Mismatch(nd.d_, key, n)
             IN  IF i < n
                 THEN LET p == Len(h) + 1
                          q == Len(h) + 2
                          pn == [Hpp_Node(Prefix(key, i), INVALID) EXCEPT
                                    !.c_ = MapPut(MapPut(EmptyMap, nd.d_[i + 1], node),
                                                  key[i + 1], q)]
                          cut == Hpp_cut_head(nd, i)
                          qn == Hpp_Node(Suffix(key, i), value)
                      IN  [nodes |-> Append(Append([h EXCEPT ![node] = cut], pn), qn),
                           node |-> p,
                           ok |-> 0 < i /\ i < nd.l_ /\ 0 < length - i]
                 ELSE IF nd.l_ < length
                 THEN LET c == IF key[i + 1] \in DOMAIN nd.c_
                               THEN nd.c_[key[i + 1]]
                               ELSE NullNode
                          r == Hpp_Node_Add(h, c, Suffix(key, i), value)
                      IN  IF ~r.ok
                          THEN [nodes |-> h, node |-> node, ok |-> FALSE]
                          ELSE [nodes |-> [r.nodes EXCEPT ![node].c_ =
                                              MapPut(r.nodes[node].c_, key[i + 1], r.node)],
                                node |-> node,
                                ok |-> TRUE]
                 ELSE IF length < nd.l_
                 THEN LET p == Len(h) + 1
                          pn == [Hpp_Node(key, value) EXCEPT
                                    !.c_ = MapPut(EmptyMap, nd.d_[i + 1], node)]
                          cut == Hpp_cut_head(nd, i)
                      IN  [nodes |-> Append([h EXCEPT ![node] = cut], pn),
                           node |-> p,
                           ok |-> i < nd.l_]
                 ELSE [nodes |-> [h EXCEPT ![node].v_ = value],
                       node |-> node,
                       ok |-> TRUE]

\* add_key of the older header handing Node::Add key + 1, as part_000 does.
Hpp_add_key_consumed(hd, h, key, value) ==
    LET node == IF key[1] \in DOMAIN hd THEN hd[key[1]] ELSE NullNode
        r == Hpp_Node_Add(h, node, Suffix(key, 1), value)
    IN  IF ~r.ok
        THEN [head_ |-> hd, nodes |-> h, ok |-> FALSE]
        ELSE [head_ |-> MapPut(hd, key[1], r.node), nodes |-> r.nodes, ok |-> TRUE]

\* PatriciaTrie::add_key(key, length, value) of the older header
Hpp_add_key(hd, h, key, value) ==
    LET node == IF key[1] \in DOMAIN hd THEN hd[key[1]] ELSE NullNode
        r == Hpp_Node_Add(h, node, key, value)
    IN  IF ~r.ok
        THEN [head_ |-> hd, nodes |-> h, ok |-> FALSE]
        ELSE [head_ |-> MapPut(hd, key[1], r.node), nodes |-> r.nodes, ok |-> TRUE]

RECURSIVE Hpp_Node_remove_key(_, _, _)
\* Node::remove_key(key, length) of the older header
Hpp_Node_remove_key(h, node, key) ==
    LET nd == h[node]
        length == Len(key)
    IN  IF ~Hpp_asserts(nd, key) THEN [nodes |-> h, ret |-> INVALID, ok |-> FALSE]
        ELSE IF length < nd.l_ THEN [nodes |-> h, ret |-> INVALID, ok |-> TRUE]
        ELSE IF \E j \in 2..nd.l_ : nd.d_[j] # key[j]
             THEN [nodes |-> h, ret |-> INVALID, ok |-> TRUE]
        ELSE IF length = nd.l_
             THEN [nodes |-> [h EXCEPT ![node].v_ = INVALID], ret |-> nd.v_, ok |-> TRUE]
        ELSE IF key[nd.l_ + 1] \notin DOMAIN nd.c_
             THEN [nodes |-> h, ret |-> INVALID, ok |-> TRUE]
        ELSE Hpp_Node_remove_key(h, nd.c_[key[nd.l_ + 1]], Suffix(key, nd.l_))

\* PatriciaTrie::remove_key(key, length) of the older header
Hpp_remove_key(hd, h, key) ==
    IF key[1] \notin DOMAIN hd
    THEN [nodes |-> h, ret |-> FalseValue, ok |-> TRUE]
    ELSE Hpp_Node_remove_key(h, hd[key[1]], key)

RECURSIVE Hpp_Node_get_value(_, _, _)
\* Node::get_value(key, length) of the older header
Hpp_Node_get_value(h, node, key) ==
    LET nd == h[node]
        length == Len(key)
    IN  IF ~Hpp_asserts(nd, key) THEN [ret |-> INVALID, ok |-> FALSE]
        ELSE IF length < nd.l_ THEN [ret |-> INVALID, ok |-> TRUE]
        ELSE IF \E j \in 2..nd.l_ : nd.d_[j] # key[j]
             THEN [ret |-> INVALID, ok |-> TRUE]
        ELSE IF length = nd.l_ THEN [ret |-> nd.v_, ok |-> TRUE]
        ELSE IF key[nd.l_ + 1] \notin DOMAIN nd.c_
             THEN [ret |-> INVALID, ok |-> TRUE]
        ELSE Hpp_Node_get_value(h, nd.c_[key[nd.l_ + 1]], Suffix(key, nd.l_))

\* PatriciaTrie::get_value(key, length) of the older header
Hpp_get_value(hd, h, key) ==
    IF key[1] \notin DOMAIN hd
    THEN [ret |-> FalseValue, ok |-> TRUE]
    ELSE Hpp_Node_get_value(h, hd[key[1]], key)

RECURSIVE Hpp_Node_get_values(_, _, _)
\* Node::get_values(buffer, length, values) of the older header: the edge is
\* not compared with buffer.
Hpp_Node_get_values(h, node, buffer) ==
    LET nd == h[node]
        length == Len(buffer)
    IN  IF ~Hpp_asserts(nd, buffer) THEN [values |-> <<>>, ok |-> FALSE]
        ELSE IF length < nd.l_ THEN [values |-> <<>>, ok |-> TRUE]
        ELSE LET r == IF nd.l_ < length /\ buffer[nd.l_ + 1] \in DOMAIN nd.c_
                      THEN Hpp_Node_get_values(h, nd.c_[buffer[nd.l_ + 1]],
                                               Suffix(buffer, nd.l_))
                      ELSE [values |-> <<>>, ok |-> TRUE]
             IN  [values |-> (IF nd.v_ # INVALID THEN <<nd.v_>> ELSE <<>>) \o r.values,
                  ok |-> r.ok]

\* PatriciaTrie::get_values(buffer, length, values) of the older header
Hpp_get_values(hd, h, buffer) ==
    IF buffer[1] \notin DOMAIN hd
    THEN [values |-> <<>>, ok |-> TRUE]
    ELSE Hpp_Node_get_values(h, hd[buffer[1]], buffer)

\* PatriciaTrie::find_key(key, length) of the older header
Hpp_find_key(hd, h, key) == Hpp_get_value(hd, h, key).ret # INVALID

Init ==
    /\ head_ = EmptyMap
    /\ nodes = <<>>
    /\ last = [op |-> "none", key |-> <<>>, value |-> 0, ret |-> 0,
               uaf |-> FALSE, had |-> FALSE]
    /\ present = EmptyMap
    /\ ncalls = 0
    /\ hpp_head_ = EmptyMap
    /\ hpp_nodes = <<>>

\* A call pt.add_key(key, length, value).
AddKey ==
    /\ ncalls < MaxCalls
    /\ \E key \in Keys, value \in Values, mem \in FreedReads :
          LET r == add_key(head_, nodes, key, value, mem)
          IN  /\ head_' = r.head_
              /\ nodes' = r.nodes
              /\ last' = [op |-> "add_key", key |-> key, value |-> value,
                          ret |-> 0, uaf |-> r.uaf,
                          had |-> key \in DOMAIN present]
              /\ present' = MapPut(present, key, value)
              /\ LET o == Hpp_add_key(hpp_head_, hpp_nodes, key, value)
                 IN  hpp_head_' = o.head_ /\ hpp_nodes' = o.nodes
    /\ ncalls' = ncalls + 1

\* A call pt.remove_key(key, length).
RemoveKey ==
    /\ ncalls < MaxCalls
    /\ \E key \in Keys :
          LET r == remove_key(head_, nodes, key)
          IN  /\ nodes' = r.nodes
              /\ last' = [op |-> "remove_key", key |-> key, value |-> 0,
                          ret |-> r.ret, uaf |-> FALSE,
                          had |-> key \in DOMAIN present]
              /\ present' = [k \in (DOMAIN present) \ {key} |-> present[k]]
              /\ hpp_nodes' = Hpp_remove_key(hpp_head_, hpp_nodes, key).nodes
    /\ ncalls' = ncalls + 1
    /\ UNCHANGED <<head_, hpp_head_>>

Next == AddKey \/ RemoveKey

Spec == Init /\ [][Next]_vars

\* The runs that only add keys.
NextAdd == AddKey

SpecAdd == Init /\ [][NextAdd]_vars

\* A call pt.add_key(key, length, value) with a value other than 0.
AddKeyNonzero == AddKey /\ last'.value # 0

\* The runs whose values are neither 0 nor INVALID.
NextNonzero == AddKeyNonzero \/ RemoveKey

SpecNonzero == Init /\ [][NextNonzero]_vars

(***************************************************************************)
(* The calls a step makes, and the expected answers.                       *)
(***************************************************************************)

\* The step is a call add_key(key, value).
AddStep(key, value) ==
    /\ ncalls' = ncalls + 1
    /\ last'.op = "add_key"
    /\ last'.key = key
    /\ last'.value = value

\* The step is a call remove_key(key).
RemoveStep(key) ==
    /\ ncalls' = ncalls + 1
    /\ last'.op = "remove_key"
    /\ last'.key = key

\* p is a prefix of q (q itself included).
IsPrefix(p, q) == Len(p) <= Len(q) /\ Prefix(q, Len(p)) = p

RECURSIVE PrefixValues(_, _, _)
\* The values of the keys of pr that are prefixes of query of length n or more,
\* shortest first.
PrefixValues(pr, query, n) ==
    IF n > Len(query) THEN <<>>
    ELSE (IF Prefix(query, n) \in DOMAIN pr
          THEN <<pr[Prefix(query, n)]>>
          ELSE <<>>) \o PrefixValues(pr, query, n + 1)

(***************************************************************************)
(* C1                                                                      *)
(***************************************************************************)

\* C1: immediately after add_key(k, v), get_value(k) returns v and
\* find_key(k) returns true.
C1_RoundTrip ==
    last.op = "add_key" =>
        /\ get_value(head_, nodes, last.key) = last.value
        /\ find_key(head_, nodes, last.key)

\* An add_key that split an edge (the branch node and the new terminal node
\* are the last two allocated) and re-parented a node that kept edge symbols.
C1_Witness ==
    /\ last.op = "add_key"
    /\ last.uaf
    /\ Len(nodes) >= 3
    /\ nodes[Len(nodes) - 1].v_ = INVALID
    /\ Locate(head_, nodes, last.key) = Len(nodes)
    /\ get_value(head_, nodes, last.key) = last.value

(***************************************************************************)
(* C2                                                                      *)
(***************************************************************************)

\* C2: for every key that is not present, get_value and remove_key return
\* INVALID and remove_key leaves the trie as it was.
C2_AbsentInvalid ==
    \A k \in Keys \ DOMAIN present :
        /\ get_value(head_, nodes, k) = INVALID
        /\ remove_key(head_, nodes, k).ret = INVALID
        /\ remove_key(head_, nodes, k).nodes = nodes

(***************************************************************************)
(* C3                                                                      *)
(***************************************************************************)

\* C3: find_key(k) is true exactly when k is present.
C3_FindIffPresent ==
    \A k \in Keys : find_key(head_, nodes, k) <=> k \in DOMAIN present

(***************************************************************************)
(* C4                                                                      *)
(***************************************************************************)

\* C4: get_values(query) is the values of the present keys that are prefixes
\* of query, one each, shortest key first, and nothing else.
C4_PrefixEnumeration ==
    \A q \in Keys : get_values(head_, nodes, q) = PrefixValues(present, q, 1)

(***************************************************************************)
(* C5                                                                      *)
(***************************************************************************)

\* C5: after remove_key(k) on a present key k, get_value(k) is INVALID and
\* find_key(k) is false, and get_value of every other present key is what it
\* was before the call.
C5_Deletion ==
    [][\A k \in DOMAIN present :
          RemoveStep(k) =>
              /\ get_value(head_', nodes', k) = INVALID
              /\ ~find_key(head_', nodes', k)
              /\ \A k2 \in (DOMAIN present) \ {k} :
                    get_value(head_', nodes', k2) = get_value(head_, nodes, k2)]_vars

\* A present key was removed (its value came back) while a longer present
\* key that has it as a proper prefix is still read back.
C5_Witness ==
    /\ last.op = "remove_key"
    /\ last.had
    /\ last.ret \in Values
    /\ get_value(head_, nodes, last.key) = INVALID
    /\ \E k2 \in DOMAIN present :
          /\ IsPrefix(last.key, k2)
          /\ get_value(head_, nodes, k2) = present[k2]

(***************************************************************************)
(* C6                                                                      *)
(***************************************************************************)

\* C6: add_key(k, v2) on a key k added before and not removed since makes
\* get_value(k) and the last value of get_values(k) v2, creates no node and
\* changes no edge and no child map: only v_ of the node that represents k.
C6_Update ==
    [][\A k \in DOMAIN present, v \in Values :
          AddStep(k, v) =>
              /\ get_value(head_', nodes', k) = v
              /\ get_values(head_', nodes', k) # <<>>
              /\ get_values(head_', nodes', k)[Len(get_values(head_', nodes', k))] = v
              /\ head_' = head_
              /\ Len(nodes') = Len(nodes)
              /\ \A n \in 1..Len(nodes) :
                    /\ nodes'[n].c_ = nodes[n].c_
                    /\ nodes'[n].d_ = nodes[n].d_
                    /\ nodes'[n].l_ = nodes[n].l_
                    /\ nodes'[n].v_ # nodes[n].v_ => n = Locate(head_, nodes, k)]_vars

(***************************************************************************)
(* C7                                                                      *)
(***************************************************************************)

\* C7: remove_key(k) returns what get_value(k) returned just before when k is
\* present, and INVALID when k is absent.
C7_RemoveReturns ==
    [][\A k \in Keys :
          RemoveStep(k) =>
              last'.ret = (IF k \in DOMAIN present
                           THEN get_value(head_, nodes, k)
                           ELSE INVALID)]_vars

(***************************************************************************)
(* C8                                                                      *)
(***************************************************************************)

RECURSIVE Node_AddSite(_, _, _)
\* The descent of Node::Add: the node at which the recursion stops and the
\* suffix it is called with there.
Node_AddSite(h, node, key) ==
    IF node = NullNode THEN [node |-> NullNode, key |-> key]
    ELSE LET nd == h[node]
             n == Min(nd.l_, Len(key))
             i == Mismatch(nd.d_, key, n)
         IN  IF i >= n /\ nd.l_ < Len(key)
             THEN Node_AddSite(h,
                               IF nd.c_ # NullPtr /\ key[i + 1] \in DOMAIN Deref(nd.c_)
                               THEN Deref(nd.c_)[key[i + 1]]
                               ELSE NullNode,
                               Suffix(key, i + 1))
             ELSE [node |-> node, key |-> key]

AddSite(hd, h, key) ==
    Node_AddSite(h, IF key[1] \in DOMAIN hd THEN hd[key[1]] ELSE NullNode,
                 Suffix(key, 1))

\* C8: when add_key reaches a node n whose edge and the remaining suffix s
\* first differ at index i before either ends, the slot that held n holds a new
\* branch node p: non-terminal, edge the first i symbols, two children, n under
\* its old edge symbol i with its edge cut by i + 1 symbols and v_, c_ as they
\* were, and a new terminal node q under s[i] with the rest of s and the value.
C8_Split ==
    [][\A k \in Keys, v \in Values :
          AddStep(k, v) =>
              LET site == AddSite(head_, nodes, k)
                  n == site.node
                  s == site.key
              IN  n # NullNode =>
                  LET nd == nodes[n]
                      m == Min(nd.l_, Len(s))
                      i == Mismatch(nd.d_, s, m)
                      p == Len(nodes) + 1
                      q == Len(nodes) + 2
                  IN  i < m =>
                      /\ Len(nodes') = Len(nodes) + 2
                      /\ \A x \in DOMAIN head_ : head_[x] = n => head_'[x] = p
                      /\ \A o \in 1..Len(nodes) :
                            nodes[o].c_ # NullPtr =>
                                \A x \in DOMAIN Deref(nodes[o].c_) :
                                    Deref(nodes[o].c_)[x] = n =>
                                        Deref(nodes'[o].c_)[x] = p
                      /\ nodes'[p].v_ = INVALID
                      /\ nodes'[p].d_ = Prefix(s, i)
                      /\ nodes'[p].l_ = i
                      /\ nodes'[p].c_ # NullPtr
                      /\ DOMAIN Deref(nodes'[p].c_) = {nd.d_[i + 1], s[i + 1]}
                      /\ Deref(nodes'[p].c_)[nd.d_[i + 1]] = n
                      /\ Deref(nodes'[p].c_)[s[i + 1]] = q
                      /\ nodes'[n].d_ = Suffix(nd.d_, i + 1)
                      /\ nodes'[n].l_ = nd.l_ - (i + 1)
                      /\ nodes'[n].v_ = nd.v_
                      /\ nodes'[n].c_ = nd.c_
                      /\ nodes'[q] = [c_ |-> NullPtr, d_ |-> Suffix(s, i + 1),
                                      l_ |-> Len(s) - (i + 1), v_ |-> v]]_vars

(***************************************************************************)
(* C9                                                                      *)
(***************************************************************************)

\* C9: add_key(k, v) leaves get_value(k2) as it was for every key k2 other
\* than k.
C9_InsertFrame ==
    [][\A k \in Keys, v \in Values :
          AddStep(k, v) =>
              \A k2 \in Keys \ {k} :
                  get_value(head_', nodes', k2) = get_value(head_, nodes, k2)]_vars

(***************************************************************************)
(* C10                                                                     *)
(***************************************************************************)

\* C10: remove_key(k) leaves head_, the number of nodes and every node's edge
\* and child map as they were; the one field it can change is v_ of the node
\* that represents k, which it sets to INVALID.
C10_RemoveKeepsStructure ==
    [][\A k \in Keys :
          RemoveStep(k) =>
              /\ head_' = head_
              /\ Len(nodes') = Len(nodes)
              /\ \A n \in 1..Len(nodes) :
                    /\ nodes'[n].c_ = nodes[n].c_
                    /\ nodes'[n].d_ = nodes[n].d_
                    /\ nodes'[n].l_ = nodes[n].l_
                    /\ nodes'[n].v_ # nodes[n].v_ =>
                          /\ n = Locate(head_, nodes, k)
                          /\ nodes'[n].v_ = INVALID]_vars

\* A present key was removed and its node, now non-terminal with a single
\* child, is still where it was.
C10_Witness ==
    /\ last.op = "remove_key"
    /\ last.had
    /\ last.ret \in Values
    /\ LET n == Locate(head_, nodes, last.key)
       IN  /\ n # NullNode
           /\ nodes[n].v_ = INVALID
           /\ nodes[n].c_ # NullPtr
           /\ Cardinality(DOMAIN Deref(nodes[n].c_)) = 1

(***************************************************************************)
(* The shape of the tree.                                                  *)
(***************************************************************************)

\* The child nodes of node n.
Children(h, n) ==
    IF h[n].c_ = NullPtr THEN {}
    ELSE {Deref(h[n].c_)[x] : x \in DOMAIN Deref(h[n].c_)}

RECURSIVE NodePaths(_, _, _, _)
\* The nodes of the subtree of node with the sequence each represents: pre,
\* then the edge, then for a child the map symbol taken and so on.
NodePaths(h, node, pre, fuel) ==
    LET nd == h[node]
        path == pre \o nd.d_
    IN  {<<node, path>>} \cup
        (IF nd.c_ = NullPtr \/ fuel = 0 THEN {}
         ELSE UNION {NodePaths(h, Deref(nd.c_)[x], path \o <<x>>, fuel - 1) :
                        x \in DOMAIN Deref(nd.c_)})

\* Every node below head_ with the sequence it represents.
Paths(hd, h) == UNION {NodePaths(h, hd[x], <<x>>, Len(h)) : x \in DOMAIN hd}

\* The slots that hold node n: root slots of head_ and child map slots.
Slots(hd, h, n) ==
    {<<0, x>> : x \in {y \in DOMAIN hd : hd[y] = n}} \cup
    UNION {{<<o, x>> : x \in {y \in DOMAIN Deref(h[o].c_) : Deref(h[o].c_)[y] = n}} :
              o \in {o \in 1..Len(h) : h[o].c_ # NullPtr}}

RECURSIVE Below(_, _, _)
\* The nodes reached from the nodes of S in 1 to k child steps.
Below(h, S, k) ==
    IF k = 0 \/ S = {} THEN {}
    ELSE LET T == UNION {Children(h, n) : n \in S}
         IN  T \cup Below(h, T, k - 1)

(***************************************************************************)
(* C11                                                                     *)
(***************************************************************************)

\* C11: a node is terminal exactly when the sequence it represents (root
\* symbol, ancestors' edges and map symbols, own edge) is a present key, and
\* every present key is represented by exactly one terminal node.
C11_PathReconstruction ==
    LET P == Paths(head_, nodes)
    IN  /\ \A pr \in P : nodes[pr[1]].v_ # INVALID <=> pr[2] \in DOMAIN present
        /\ \A k \in DOMAIN present :
              Cardinality({pr \in P : pr[2] = k /\ nodes[pr[1]].v_ # INVALID}) = 1

(***************************************************************************)
(* C12                                                                     *)
(***************************************************************************)

\* C12: after add_key calls alone every node is terminal or has a child.
C12_NodeExists ==
    \A n \in 1..Len(nodes) :
        nodes[n].v_ # INVALID \/ Children(nodes, n) # {}

\* Three add_key calls have built a branch node and a terminal leaf.
C12_Witness ==
    /\ ncalls = 3
    /\ \E n \in 1..Len(nodes) : nodes[n].v_ = INVALID /\ Children(nodes, n) # {}
    /\ \E n \in 1..Len(nodes) : nodes[n].v_ # INVALID /\ Children(nodes, n) = {}

(***************************************************************************)
(* C13                                                                     *)
(***************************************************************************)

\* C13: no add_key reads an edge buffer that was freed, and a node whose edge
\* cut_head shortened by n symbols has its old edge minus the first n symbols.
C13_EdgeStorage ==
    [][\A k \in Keys, v \in Values :
          AddStep(k, v) =>
              /\ ~last'.uaf
              /\ \A n \in 1..Len(nodes) :
                    nodes'[n].l_ # nodes[n].l_ =>
                        nodes'[n].d_ =
                            Suffix(nodes[n].d_, nodes[n].l_ - nodes'[n].l_)]_vars

(***************************************************************************)
(* C15                                                                     *)
(***************************************************************************)

\* C15: after add_key calls alone every non-terminal node has at least two
\* children.
C15_Compressed ==
    \A n \in 1..Len(nodes) :
        nodes[n].v_ = INVALID => Cardinality(Children(nodes, n)) >= 2

\* A split has left a branch node with exactly two children below a node.
C15_Witness ==
    \E n \in 1..Len(nodes) :
        /\ nodes[n].v_ = INVALID
        /\ Cardinality(Children(nodes, n)) = 2
        /\ \E o \in 1..Len(nodes) : n \in Children(nodes, o)

(***************************************************************************)
(* C16                                                                     *)
(***************************************************************************)

\* C16: every node is held by exactly one slot, of head_ or of one parent's
\* child map, and no node is below itself.
C16_Ownership ==
    \A n \in 1..Len(nodes) :
        /\ Cardinality(Slots(head_, nodes, n)) = 1
        /\ n \notin Below(nodes, {n}, Len(nodes))

\* An add_key has re-parented the old root of a subtree under a new node.
C16_Witness ==
    /\ last.op = "add_key"
    /\ \E x \in DOMAIN head_ :
          /\ head_[x] > 1
          /\ Children(nodes, head_[x]) # {}
          /\ \E n \in Children(nodes, head_[x]) : n < head_[x]

(***************************************************************************)
(* C17                                                                     *)
(***************************************************************************)

\* A recursive call handing on key + l_, the edge consumed but not the symbol
\* that chose the child.
Descend_edge(key, l) == Suffix(key, l)

\* The arguments of a recursive call: key + l_ + 1, length - l_ - 1.
Descend(key, l) == Suffix(key, l + 1)

RECURSIVE Node_walk_lengths(_, _, _, _)
\* The length argument of each nested call of Node::get_value on key, outermost
\* first; Node::remove_key and Node::get_values recurse under the same
\* conditions with the same arguments.  fuel cuts the nesting off.
Node_walk_lengths(h, node, key, fuel) ==
    LET nd == h[node]
        length == Len(key)
    IN  <<length>> \o
        (IF \/ fuel = 0
            \/ length < nd.l_
            \/ nd.d_ # Prefix(key, nd.l_)
            \/ length = nd.l_
            \/ nd.c_ = NullPtr
            \/ key[nd.l_ + 1] \notin DOMAIN Deref(nd.c_)
         THEN <<>>
         ELSE Node_walk_lengths(h, Deref(nd.c_)[key[nd.l_ + 1]],
                                Descend(key, nd.l_), fuel - 1))

\* The nested Node calls of get_value, remove_key or get_values on key.
walk_lengths(hd, h, key) ==
    IF key[1] \notin DOMAIN hd
    THEN <<>>
    ELSE Node_walk_lengths(h, hd[key[1]], Suffix(key, 1), Len(key) + 1)

RECURSIVE Node_Add_lengths(_, _, _, _)
\* The length argument of each nested call of Node::Add on key, outermost
\* first, the call on a null node included.
Node_Add_lengths(h, node, key, fuel) ==
    LET length == Len(key)
    IN  <<length>> \o
        (IF fuel = 0 \/ node = NullNode THEN <<>>
         ELSE LET nd == h[node]
                  n == Min(nd.l_, length)
                  i == Mismatch(nd.d_, key, n)
              IN  IF i < n \/ ~(nd.l_ < length) THEN <<>>
                  ELSE Node_Add_lengths(
                           h,
                           IF nd.c_ # NullPtr /\ key[i + 1] \in DOMAIN Deref(nd.c_)
                           THEN Deref(nd.c_)[key[i + 1]]
                           ELSE NullNode,
                           Descend(key, i), fuel - 1))

\* The nested Node::Add calls of add_key on key.
Add_lengths(hd, h, key) ==
    Node_Add_lengths(h, IF key[1] \in DOMAIN hd THEN hd[key[1]] ELSE NullNode,
                     Suffix(key, 1), Len(key) + 1)

\* t starts below n and falls strictly, so it has at most n elements.
Shrinks(t, n) ==
    /\ Len(t) <= n
    /\ \A j \in 1..Len(t) : t[j] < (IF j = 1 THEN n ELSE t[j - 1])

\* C17: in every call each nested step is handed a strictly shorter suffix of
\* the key, and the nesting is never deeper than the key is long.
C17_Termination ==
    \A k \in Keys :
        /\ Shrinks(walk_lengths(head_, nodes, k), Len(k))
        /\ Shrinks(Add_lengths(head_, nodes, k), Len(k))

\* A key of three symbols whose walk and whose insertion nest three deep.
C17_Witness ==
    \E k \in Keys :
        /\ Len(k) = MaxLen
        /\ Len(walk_lengths(head_, nodes, k)) = MaxLen
        /\ Len(Add_lengths(head_, nodes, k)) = MaxLen

(***************************************************************************)
(* C14                                                                     *)
(***************************************************************************)

\* C14: given the same add_key and remove_key calls with values other than 0
\* and INVALID, the two headers return the same for every get_value, find_key,
\* remove_key and get_values call.
C14_SameResults ==
    \A k \in Keys :
        /\ get_value(head_, nodes, k) = Hpp_get_value(hpp_head_, hpp_nodes, k).ret
        /\ find_key(head_, nodes, k) = Hpp_find_key(hpp_head_, hpp_nodes, k)
        /\ remove_key(head_, nodes, k).ret =
               Hpp_remove_key(hpp_head_, hpp_nodes, k).ret
        /\ get_values(head_, nodes, k) = Hpp_get_values(hpp_head_, hpp_nodes, k).values

(***************************************************************************)
(* C18                                                                     *)
(***************************************************************************)

\* The asserts Node::Add meets on the way to the node where it changes the
\* tree: value != I_, and length <= l_ in the cut_head of a split or demotion.
Add_asserts(hd, h, key, value) ==
    /\ value # INVALID
    /\ LET site == AddSite(hd, h, key)
       IN  site.node # NullNode =>
               LET nd == h[site.node]
                   length == Len(site.key)
                   n == Min(nd.l_, length)
                   i == Mismatch(nd.d_, site.key, n)
               IN  (i < n \/ length < nd.l_) => i + 1 <= nd.l_

\* C18: no assert fails in a call with a key of length >= 1 and a value other
\* than INVALID: cut_head gets a length <= l_ (< l_ in the older header),
\* Node::Add never gets INVALID, and in the older header every node reached has
\* an edge of length >= 1 that starts with the first symbol of the key left.
C18_Asserts ==
    \A k \in Keys :
        /\ \A v \in Values :
              /\ Add_asserts(head_, nodes, k, v)
              /\ Hpp_add_key(hpp_head_, hpp_nodes, k, v).ok
        /\ Hpp_remove_key(hpp_head_, hpp_nodes, k).ok
        /\ Hpp_get_value(hpp_head_, hpp_nodes, k).ok
        /\ Hpp_get_values(hpp_head_, hpp_nodes, k).ok

\* Both tries have split a node, so cut_head has run in both, and a chain of
\* three nodes is walked in the older one.
C18_Witness ==
    /\ \E n \in 1..Len(nodes) : nodes[n].v_ = INVALID
    /\ \E n \in 1..Len(hpp_nodes) :
          /\ hpp_nodes[n].v_ = INVALID
          /\ \E x \in DOMAIN hpp_nodes[n].c_ :
                DOMAIN hpp_nodes[hpp_nodes[n].c_[x]].c_ # {}

====
